---- MODULE Spec2Model ----
(***************************************************************************)
(* FedAdagrad.aggregate_fit (src/py/flwr/server/strategy/fedadagrad.py)    *)
(* and the benchmark server's main (src/flower_benchmark/cifar/server.py). *)
(*                                                                         *)
(* Numbers of the strategy (tensor elements, eta, tau, v_t) are fixed      *)
(* point: the integer x stands for x / Scale.  Every numpy operation of    *)
(* the update is one rounded fixed-point operation, in the order the code  *)
(* applies them.  A tensor is a sequence of numbers; Weights are a         *)
(* sequence of tensors.                                                    *)
(***************************************************************************)
EXTENDS Integers, Sequences, FiniteSets, TLC

VARIABLES
    accept_failures,  \* FedAdagrad: accept_failures of each instance
    eta,              \* FedAdagrad: eta of each instance
    tau,              \* FedAdagrad: tau of each instance
    v_t,              \* FedAdagrad: self.v_t of each instance (None or a tensor)
    shape,            \* <<number of tensors, elements per tensor>> of the model
    calls,            \* aggregate_fit calls made so far
    last,             \* the last aggregate_fit call: arguments and outcome
    sumsq,            \* history: sum of delta_t*delta_t over the successful calls
    setting,          \* main: server_setting
    pc,               \* main: position
    strategy,         \* main: the local variable strategy (unbound or an object)
    server,           \* main: fl.Server created
    started,          \* main: fl.app.start_server called
    raised            \* main: the exception that ended main, if any

vars == <<accept_failures, eta, tau, v_t, shape, calls, last, sumsq,
          setting, pc, strategy, server, started, raised>>

strategyVars == <<accept_failures, eta, tau, v_t, shape, calls, last, sumsq>>

mainVars == <<setting, pc, strategy, server, started, raised>>

-----------------------------------------------------------------------------
(* Bounds and input sets                                                   *)

\* Fixed-point resolution: x stands for x / Scale.
Scale == 10 * 10 * 10

MaxCalls == 3

MaxLen == 2

MaxTimeout == 4

\* Python's None for Optional[np.ndarray] / Optional[Weights]; tensors and
\* Weights of the model are never empty, so the empty sequence is free.
None == <<>>

Instances == {"A", "B"}

\* Constructor arguments (accept_failures, eta, tau) instance A is built with;
\* instance B is built with DefaultConfig.
DefaultConfig == [accept_failures |-> TRUE, eta |-> Scale \div 10, tau |-> 1]

FedAdagradConfigs ==
    { DefaultConfig,
      [accept_failures |-> FALSE, eta |-> Scale \div 10, tau |-> 1],
      [accept_failures |-> FALSE, eta |-> Scale,         tau |-> Scale] }

\* <<number of tensors, elements per tensor>>
Shapes == { <<1, n>> : n \in 1 .. MaxLen } \cup { <<2, 1>> }

\* Weights of the model's shape: first element a, the others b, in every tensor.
MkTensor(a, b, len) == [j \in 1 .. len |-> IF j = 1 THEN a ELSE b]

MkWeights(a, b, shp) == [k \in 1 .. shp[1] |-> MkTensor(a, b, shp[2])]

\* What one client returns from fit: its parameters and num_examples.
FitResOf(a, n, shp) == [parameters |-> MkWeights(a, a, shp), num_examples |-> n]

\* The results lists offered to aggregate_fit: none, one client, two clients
\* of different num_examples (FedAvg aggregates 0, 2 and 1.5).
ResultsInputs(shp) ==
    { <<>>,
      << FitResOf(0, 1, shp) >>,
      << FitResOf(2 * Scale, 1, shp) >>,
      << FitResOf(2 * Scale, 3, shp), FitResOf(0, 1, shp) >> }

FailuresInputs == { <<>>, <<"TimeoutError">> }

PreviousWeightsInputs(shp) ==
    { MkWeights(0, 2 * Scale, shp), MkWeights(2 * Scale, 0, shp) }

-----------------------------------------------------------------------------
(* Fixed-point arithmetic                                                  *)

Abs(x) == IF x < 0 THEN -x ELSE x

Sign(x) == IF x < 0 THEN -1 ELSE IF x > 0 THEN 1 ELSE 0

\* a / b rounded to the nearest integer, halves away from zero (b > 0).
RDiv(a, b) == Sign(a) * ((2 * Abs(a) + b) \div (2 * b))

RECURSIVE ISqrtBetween(_, _, _)
ISqrtBetween(x, lo, hi) ==
    IF lo >= hi THEN lo
    ELSE LET mid == (lo + hi + 1) \div 2
         IN IF mid * mid <= x THEN ISqrtBetween(x, mid, hi)
            ELSE ISqrtBetween(x, lo, mid - 1)

\* floor(sqrt(x)) for 0 <= x
ISqrt(x) == ISqrtBetween(x, 0, 40000)

FxMul(a, b) == RDiv(a * b, Scale)

FxDiv(a, b) == RDiv(a * Scale, b)

FxSqrt(a) == ISqrt(a * Scale)

-----------------------------------------------------------------------------
(* The base class's aggregate_fit (FedOpt -> FedAvg)                       *)

RECURSIVE SumExamples(_)
SumExamples(results) ==
    IF results = <<>> THEN 0
    ELSE Head(results).num_examples + SumExamples(Tail(results))

RECURSIVE WeightedSum(_, _, _)
WeightedSum(results, k, j) ==
    IF results = <<>> THEN 0
    ELSE Head(results).num_examples * Head(results).parameters[k][j]
         + WeightedSum(Tail(results), k, j)

\* sum(w_i * params_i) / sum(w_i) per tensor
FedAvgAggregate(results) ==
    LET first == results[1].parameters
    IN [k \in 1 .. Len(first) |->
          [j \in 1 .. Len(first[k]) |->
              RDiv(WeightedSum(results, k, j), SumExamples(results))]]

FedAvgAggregateFit(accept, results, failures) ==
    IF results = <<>> THEN None
    ELSE IF ~accept /\ failures # <<>> THEN None
    ELSE FedAvgAggregate(results)

-----------------------------------------------------------------------------
(* FedAdagrad                                                              *)

\* previous_weights: Weights = []
DefaultPreviousWeights == <<>>

\* super().aggregate_fit(rnd=rnd, results=results, failures=failures)
SuperAggregateFitIgnoringFailures(accept, results, failures) ==
    FedAvgAggregateFit(accept, results, <<>>)

SuperAggregateFit(accept, results, failures) ==
    FedAvgAggregateFit(accept, results, failures)

\* fedavg_aggregate[0] - previous_weights[0]
TensorSub(x, y) == [j \in 1 .. Len(x) |-> x[j] - y[j]]

\* bool(x) of None or of an ndarray, as `not self.v_t` evaluates it: None
\* and an empty array are falsy, a one-element array is its element's
\* truth, an array of more elements raises ValueError.
ArrayTruth(x) ==
    IF Len(x) = 0 THEN "False"
    ELSE IF Len(x) = 1 THEN (IF x[1] # 0 THEN "True" ELSE "False")
    ELSE "ValueError"

\* np.zeros_like(delta_t)
ZerosLike(x) == [j \in 1 .. Len(x) |-> 0]

\* self.v_t + np.multiply(delta_t, delta_t)
AccumulateSqOverwriting(v, delta) ==
    [j \in 1 .. Len(delta) |-> FxMul(delta[j], delta[j])]

AccumulateSq(v, delta) ==
    [j \in 1 .. Len(delta) |-> v[j] + FxMul(delta[j], delta[j])]

\* previous_weights[0] + self.eta * delta_t / (np.sqrt(self.v_t) + self.tau)
AdagradUpdateNoSqrt(prev, delta, v, e, t) ==
    [j \in 1 .. Len(delta) |->
        prev[j] + FxDiv(FxMul(e, delta[j]), v[j] + t)]

AdagradUpdate(prev, delta, v, e, t) ==
    [j \in 1 .. Len(delta) |->
        prev[j] + FxDiv(FxMul(e, delta[j]), FxSqrt(v[j]) + t)]

\* The body of aggregate_fit on an instance whose fields are v, accept, e, t:
\* how the call ends, what it returns and the v_t it leaves.
AggregateFitBodyStaleV(v, accept, e, t, results, failures, previous_weights) ==
    LET fedavg_aggregate == SuperAggregateFit(accept, results, failures)
        ended(how) == [outcome |-> how, ret |-> None, v_t |-> v,
                       init_branch |-> FALSE, fedavg_aggregate |-> fedavg_aggregate]
    IN IF fedavg_aggregate = None THEN ended("None")
       ELSE IF Len(previous_weights) = 0 THEN ended("IndexError")
       ELSE LET delta_t == TensorSub(fedavg_aggregate[1], previous_weights[1])
                truth == ArrayTruth(v)
            IN IF truth = "ValueError" THEN ended("ValueError")
               ELSE LET v0 == IF truth = "False" THEN ZerosLike(delta_t) ELSE v
                        v1 == AccumulateSq(v0, delta_t)
                    IN [outcome |-> "Weights",
                        ret |-> << AdagradUpdate(previous_weights[1], delta_t, v0, e, t) >>,
                        v_t |-> v1,
                        init_branch |-> (truth = "False"),
                        fedavg_aggregate |-> fedavg_aggregate]

AggregateFitBody(v, accept, e, t, results, failures, previous_weights) ==
    LET fedavg_aggregate == SuperAggregateFit(accept, results, failures)
        ended(how) == [outcome |-> how, ret |-> None, v_t |-> v,
                       init_branch |-> FALSE, fedavg_aggregate |-> fedavg_aggregate]
    IN IF fedavg_aggregate = None THEN ended("None")
       ELSE IF Len(previous_weights) = 0 THEN ended("IndexError")
       ELSE LET delta_t == TensorSub(fedavg_aggregate[1], previous_weights[1])
                truth == ArrayTruth(v)
            IN IF truth = "ValueError" THEN ended("ValueError")
               ELSE LET v0 == IF truth = "False" THEN ZerosLike(delta_t) ELSE v
                        v1 == AccumulateSq(v0, delta_t)
                    IN [outcome |-> "Weights",
                        ret |-> << AdagradUpdate(previous_weights[1], delta_t, v1, e, t) >>,
                        v_t |-> v1,
                        init_branch |-> (truth = "False"),
                        fedavg_aggregate |-> fedavg_aggregate]

\* self.v_t = ... : an attribute of the instance
StoreVtShared(vt, i, new) == [k \in DOMAIN vt |-> new]

StoreVt(vt, i, new) == [vt EXCEPT ![i] = new]

\* History: the squares of delta_t of this call, added when the call succeeded.
SumSqAfter(old, r, previous_weights) ==
    IF r.outcome # "Weights" THEN old
    ELSE LET d == TensorSub(r.fedavg_aggregate[1], previous_weights[1])
         IN [j \in 1 .. Len(d) |->
                (IF old = None THEN 0 ELSE old[j]) + (d[j] * d[j]) \div Scale]

AggregateFitCall(i, results, failures, previous_weights) ==
    /\ pc = "idle"
    /\ calls < MaxCalls
    /\ \E r \in { AggregateFitBody(v_t[i], accept_failures[i], eta[i], tau[i],
                                   results, failures, previous_weights) } :
          /\ v_t' = StoreVt(v_t, i, r.v_t)
          /\ last' = [inst |-> i,
                      previous_weights |-> previous_weights,
                      has_failures |-> (failures # <<>>),
                      fedavg_aggregate |-> r.fedavg_aggregate,
                      outcome |-> r.outcome,
                      ret |-> r.ret,
                      v_before |-> v_t[i],
                      init_branch |-> r.init_branch]
          /\ sumsq' = [sumsq EXCEPT ![i] = SumSqAfter(sumsq[i], r, previous_weights)]
    /\ calls' = calls + 1
    /\ UNCHANGED <<accept_failures, eta, tau, shape>>
    /\ UNCHANGED mainVars

\* strategy.aggregate_fit(rnd, results, failures): the strategy contract's call
AggregateFit3(i) ==
    \E results \in ResultsInputs(shape), failures \in FailuresInputs :
        AggregateFitCall(i, results, failures, DefaultPreviousWeights)

\* strategy.aggregate_fit(rnd, results, failures, previous_weights)
AggregateFit4(i) ==
    \E results \in ResultsInputs(shape), failures \in FailuresInputs,
       previous_weights \in PreviousWeightsInputs(shape) :
        AggregateFitCall(i, results, failures, previous_weights)

NoCall ==
    [inst |-> "-", previous_weights |-> <<>>, has_failures |-> FALSE,
     fedavg_aggregate |-> None, outcome |-> "-", ret |-> None,
     v_before |-> None, init_branch |-> FALSE]

-----------------------------------------------------------------------------
(* The benchmark server's main                                             *)

\* Optional[int]: None is <<>>, the integer n is <<n>>.
Some(n) == <<n>>

\* a timeout is unset or a positive number of seconds
OptionalTimeouts == {None} \cup { Some(n) : n \in 1 .. MaxTimeout }

\* server_setting.strategy: the five names main knows, and one it does not
StrategyNames ==
    {"fedavg", "fast-and-slow", "fedfs-v0", "fedfs-v1", "qffedavg", "other"}

Settings ==
    [strategy : StrategyNames,
     training_round_timeout : OptionalTimeouts,
     training_round_timeout_short : OptionalTimeouts]

Unbound == [kind |-> "unbound", t_fast |-> None, t_slow |-> None, t_max |-> None]

\* math.ceil(0.5 * n)
CeilHalf(n) == -((-n) \div 2)

\* t_fast = math.ceil(0.5 * training_round_timeout)
\*          if training_round_timeout_short is None
\*          else training_round_timeout_short
TFastFloor(s) ==
    IF s.training_round_timeout_short = None
    THEN s.training_round_timeout[1] \div 2
    ELSE s.training_round_timeout_short[1]

TFast(s) ==
    IF s.training_round_timeout_short = None
    THEN CeilHalf(s.training_round_timeout[1])
    ELSE s.training_round_timeout_short[1]

\* raise ValueError(...)
Raise(exc) ==
    /\ pc' = "raised"
    /\ raised' = exc
    /\ UNCHANGED <<setting, strategy, server, started>>

\* The block's condition is false, or the block has assigned strategy.
Continue(to, obj) ==
    /\ pc' = to
    /\ strategy' = obj
    /\ UNCHANGED <<setting, server, started, raised>>

\* args = parse_args() ... on_fit_config_fn = get_on_fit_config_fn(...)
MainSetup ==
    /\ pc = "start"
    /\ Continue("fedavg", strategy)
    /\ UNCHANGED strategyVars

\* if server_setting.strategy == "fedavg":
MainFedAvg ==
    /\ pc = "fedavg"
    /\ IF setting.strategy = "fedavg"
       THEN Continue("fast-and-slow", [Unbound EXCEPT !.kind = "FedAvg"])
       ELSE Continue("fast-and-slow", strategy)
    /\ UNCHANGED strategyVars

\* if server_setting.strategy == "fast-and-slow":
MainFastAndSlow ==
    /\ pc = "fast-and-slow"
    /\ IF setting.strategy = "fast-and-slow"
       THEN IF setting.training_round_timeout = None
            THEN Raise("ValueError")
            ELSE Continue("fedfs-v0",
                          [kind |-> "FastAndSlow",
                           t_fast |-> Some(TFast(setting)),
                           t_slow |-> setting.training_round_timeout,
                           t_max |-> None])
       ELSE Continue("fedfs-v0", strategy)
    /\ UNCHANGED strategyVars

\* if server_setting.strategy == "fedfs-v0":
MainFedFSv0 ==
    /\ pc = "fedfs-v0"
    /\ IF setting.strategy = "fedfs-v0"
       THEN IF setting.training_round_timeout = None
            THEN Raise("ValueError")
            ELSE Continue("fedfs-v1",
                          [kind |-> "FedFSv0",
                           t_fast |-> Some(TFast(setting)),
                           t_slow |-> setting.training_round_timeout,
                           t_max |-> None])
       ELSE Continue("fedfs-v1", strategy)
    /\ UNCHANGED strategyVars

\* if server_setting.strategy == "fedfs-v1":
MainFedFSv1Unchecked ==
    /\ pc = "fedfs-v1"
    /\ IF setting.strategy = "fedfs-v1"
       THEN Continue("qffedavg",
                     [Unbound EXCEPT !.kind = "FedFSv1",
                                     !.t_max = setting.training_round_timeout])
       ELSE Continue("qffedavg", strategy)
    /\ UNCHANGED strategyVars

MainFedFSv1 ==
    /\ pc = "fedfs-v1"
    /\ IF setting.strategy = "fedfs-v1"
       THEN IF setting.training_round_timeout = None
            THEN Raise("ValueError")
            ELSE Continue("qffedavg",
                          [Unbound EXCEPT !.kind = "FedFSv1",
                                          !.t_max = setting.training_round_timeout])
       ELSE Continue("qffedavg", strategy)
    /\ UNCHANGED strategyVars

\* if server_setting.strategy == "qffedavg":
MainQffedAvg ==
    /\ pc = "qffedavg"
    /\ IF setting.strategy = "qffedavg"
       THEN Continue("server", [Unbound EXCEPT !.kind = "QffedAvg"])
       ELSE Continue("server", strategy)
    /\ UNCHANGED strategyVars

\* log(INFO, ..., str(strategy)); server = fl.Server(..., strategy=strategy)
MainCreateServer ==
    /\ pc = "server"
    /\ IF strategy = Unbound
       THEN Raise("UnboundLocalError")
       ELSE /\ pc' = "start_server"
            /\ server' = TRUE
            /\ UNCHANGED <<setting, strategy, started, raised>>
    /\ UNCHANGED strategyVars

\* fl.app.start_server(DEFAULT_SERVER_ADDRESS, server, config=...)
MainStartServer ==
    /\ pc = "start_server"
    /\ pc' = "done"
    /\ started' = TRUE
    /\ UNCHANGED <<setting, strategy, server, raised>>
    /\ UNCHANGED strategyVars

-----------------------------------------------------------------------------
(* Specifications                                                          *)

NoSetting ==
    [strategy |-> "-", training_round_timeout |-> None,
     training_round_timeout_short |-> None]

\* main is not running
MainIdle ==
    /\ setting = NoSetting
    /\ pc = "idle"
    /\ strategy = Unbound
    /\ server = FALSE
    /\ started = FALSE
    /\ raised = "-"

\* FedAdagrad.__init__ of both instances
Init ==
    /\ \E ca \in FedAdagradConfigs, cb \in {DefaultConfig} :
          /\ accept_failures = [i \in Instances |->
                IF i = "A" THEN ca.accept_failures ELSE cb.accept_failures]
          /\ eta = [i \in Instances |-> IF i = "A" THEN ca.eta ELSE cb.eta]
          /\ tau = [i \in Instances |-> IF i = "A" THEN ca.tau ELSE cb.tau]
    /\ v_t = [i \in Instances |-> None]
    /\ shape \in Shapes
    /\ calls = 0
    /\ last = NoCall
    /\ sumsq = [i \in Instances |-> None]
    /\ MainIdle

Next ==
    \/ \E i \in Instances : AggregateFit3(i)
    \/ \E i \in Instances : AggregateFit4(i)

Spec == Init /\ [][Next]_vars

\* main() entered with one of the settings; no strategy call is made
InitMain ==
    /\ setting \in Settings
    /\ pc = "start"
    /\ strategy = Unbound
    /\ server = FALSE
    /\ started = FALSE
    /\ raised = "-"
    /\ accept_failures = [i \in Instances |-> DefaultConfig.accept_failures]
    /\ eta = [i \in Instances |-> DefaultConfig.eta]
    /\ tau = [i \in Instances |-> DefaultConfig.tau]
    /\ v_t = [i \in Instances |-> None]
    /\ shape = <<1, 1>>
    /\ calls = 0
    /\ last = NoCall
    /\ sumsq = [i \in Instances |-> None]

NextMain ==
    \/ MainSetup
    \/ MainFedAvg
    \/ MainFastAndSlow
    \/ MainFedFSv0
    \/ MainFedFSv1
    \/ MainQffedAvg
    \/ MainCreateServer
    \/ MainStartServer

SpecMain == InitMain /\ [][NextMain]_vars

-----------------------------------------------------------------------------
(* Properties of FedAdagrad.aggregate_fit (under Spec)                     *)

Called == last.inst # "-"

Succeeded == last.outcome = "Weights"

\* delta_t of the last successful call
LastDelta == TensorSub(last.fedavg_aggregate[1], last.previous_weights[1])

\* v_t as the last call found it, None read as zeros
LastVBefore ==
    IF last.v_before = None THEN ZerosLike(LastDelta) ELSE last.v_before

\* C1: after every successful aggregate_fit call the accumulator is the one
\* the call found (zeros on first use) plus delta_t*delta_t element-wise, and
\* the returned element is previous_params + eta*delta_t/(sqrt(v_t)+tau)
\* with the increased v_t, to within one unit of the fixed-point resolution;
\* previous_params=[0], delta_t=[2], eta=0.1 and the smallest tau give
\* v_t=[4] and a parameter within one unit of 0.1.
C1_AdagradUpdate ==
    Succeeded =>
        LET i == last.inst
            prev == last.previous_weights[1]
        IN /\ Len(v_t[i]) = Len(LastDelta)
           /\ Len(last.ret[1]) = Len(LastDelta)
           /\ \A j \in 1 .. Len(LastDelta) :
                 LET d == LastDelta[j]
                     s == FxSqrt(v_t[i][j])
                     u == last.ret[1][j] - prev[j]
                 IN /\ v_t[i][j] * Scale = LastVBefore[j] * Scale + d * d
                    /\ s * s <= v_t[i][j] * Scale
                    /\ v_t[i][j] * Scale < (s + 1) * (s + 1)
                    /\ Abs(u * (s + tau[i]) - eta[i] * d) <= s + tau[i]
           /\ ( /\ prev = <<0>>
                /\ LastDelta = <<2 * Scale>>
                /\ last.v_before = None
                /\ eta[i] = Scale \div 10
                /\ tau[i] = 1 )
              => /\ v_t[i] = <<4 * Scale>>
                 /\ Abs(last.ret[1][1] - Scale \div 10) <= 1

C1_Witness ==
    /\ Succeeded
    /\ last.previous_weights[1] = <<0>>
    /\ LastDelta = <<2 * Scale>>
    /\ last.v_before = None
    /\ eta[last.inst] = Scale \div 10
    /\ tau[last.inst] = 1
    /\ v_t[last.inst] = <<4 * Scale>>

\* C2: a call with accept_failures=False and at least one failure returns
\* no Parameters and leaves v_t as it found it.
C2_FailClosed ==
    (Called /\ last.has_failures /\ ~accept_failures[last.inst]) =>
        /\ last.outcome = "None"
        /\ last.ret = None
        /\ v_t[last.inst] = last.v_before

C2_Witness ==
    /\ Called
    /\ last.has_failures
    /\ ~accept_failures[last.inst]
    /\ last.v_before # None
    /\ last.outcome = "None"
    /\ v_t[last.inst] = last.v_before

\* C3: a call through the strategy contract, with the three arguments
\* (round, results, failures), ends by returning Parameters or None and
\* never raises.
C3_ContractCallNeverRaises ==
    (Called /\ last.previous_weights = DefaultPreviousWeights) =>
        last.outcome \in {"Weights", "None"}

\* C5: the Parameters a successful call returns have as many tensors as
\* previous_params and as the FedAvg aggregate.
C5_SameNumberOfTensors ==
    Succeeded =>
        /\ Len(last.ret) = Len(last.previous_weights)
        /\ Len(last.ret) = Len(last.fedavg_aggregate)

\* C6: after any sequence of calls, successful and failed ones mixed, v_t of
\* an instance is the element-wise sum of delta_t*delta_t over exactly its
\* successful calls (None before the first); a call that does not succeed
\* leaves it as it was.
C6_AccumulatorIsSumOfSquares ==
    /\ \A i \in Instances : v_t[i] = sumsq[i]
    /\ (Called /\ ~Succeeded) => v_t[last.inst] = last.v_before
    /\ (Succeeded /\ last.v_before # None) =>
          \A j \in 1 .. Len(last.v_before) : v_t[last.inst][j] >= last.v_before[j]

\* two successful rounds with delta_t=[2], then a failed round: v_t=[8]
C6_Witness ==
    /\ calls = 3
    /\ last.inst = "A"
    /\ last.outcome = "None"
    /\ v_t["A"] = <<8 * Scale>>
    /\ v_t["B"] = None

\* C7: once an instance has made a successful call, a later call that gets
\* an aggregate and previous weights succeeds without taking the
\* zero-initialisation branch again, also when the stored v_t is all zero
\* or has more than one element.
C7_InitOnlyOnFirstSuccess ==
    ( /\ Called
      /\ last.v_before # None
      /\ last.fedavg_aggregate # None
      /\ last.previous_weights # DefaultPreviousWeights ) =>
        /\ Succeeded
        /\ ~last.init_branch

\* C8: a call on one instance leaves the other instance's v_t unchanged, and
\* what the called instance stores and returns is determined by its own
\* fields and the call's arguments.
C8_InstancesIsolated ==
    [][ \A i \in Instances :
          /\ last'.inst # i => v_t'[i] = v_t[i]
          /\ (calls' # calls /\ last'.inst = i) =>
                /\ last'.v_before = v_t[i]
                /\ v_t'[i] = sumsq'[i]
                /\ last'.outcome = "Weights" =>
                      last'.ret = << AdagradUpdate(last'.previous_weights[1],
                                       TensorSub(last'.fedavg_aggregate[1],
                                                 last'.previous_weights[1]),
                                       v_t'[i], eta[i], tau[i]) >> ]_vars

C8_Witness ==
    /\ last.inst = "A"
    /\ Succeeded
    /\ v_t["A"] # None
    /\ v_t["B"] # None
    /\ v_t["A"] # v_t["B"]

\* C10: with eta >= 0 and tau > 0, every element a successful call returns
\* differs from previous_params by at most eta, in the direction of delta_t's
\* sign (no change when delta_t is zero), and v_t is at least delta_t*delta_t.
C10_StepBoundedByEta ==
    (Succeeded /\ eta[last.inst] >= 0 /\ tau[last.inst] > 0) =>
        \A j \in 1 .. Len(LastDelta) :
            LET d == LastDelta[j]
                u == last.ret[1][j] - last.previous_weights[1][j]
            IN /\ Abs(u) <= eta[last.inst]
               /\ u * d >= 0
               /\ d = 0 => u = 0
               /\ (d # 0 /\ eta[last.inst] > 0) => u # 0
               /\ v_t[last.inst][j] * Scale >= d * d

C10_Witness ==
    /\ Succeeded
    /\ last.v_before # None
    /\ LastDelta[1] < 0
    /\ last.ret[1][1] < last.previous_weights[1][1]

-----------------------------------------------------------------------------
(* Properties of the benchmark server's main (under SpecMain)              *)

TimeoutDependent == {"fast-and-slow", "fedfs-v0", "fedfs-v1"}

\* C4: with a timeout-dependent strategy and no training_round_timeout,
\* main ends in ValueError with no strategy constructed, no Server created
\* and none started; with fedavg or qffedavg a missing timeout raises
\* nothing and main ends with the server started.
C4_MissingTimeoutIsFatal ==
    /\ (setting.strategy \in TimeoutDependent
          /\ setting.training_round_timeout = None) =>
            /\ strategy = Unbound
            /\ ~server
            /\ ~started
            /\ pc \in {"start", "fedavg", "fast-and-slow", "fedfs-v0",
                       "fedfs-v1", "raised"}
            /\ pc = "raised" => raised = "ValueError"
    /\ (setting.strategy \in {"fedavg", "qffedavg"}
          /\ setting.training_round_timeout = None) =>
            /\ raised = "-"
            /\ pc # "raised"
            /\ pc = "done" => (server /\ started /\ strategy # Unbound)

C4_Witness ==
    /\ setting.strategy = "fedfs-v1"
    /\ setting.training_round_timeout = None
    /\ pc = "raised"
    /\ raised = "ValueError"
    /\ strategy = Unbound

BoundedStrategy == strategy.kind \in {"FastAndSlow", "FedFSv0"}

\* C9 as stated: whenever main has constructed a fast-and-slow or fedfs-v0
\* strategy, t_fast <= t_slow.
C9_TFastAtMostTSlow ==
    BoundedStrategy => strategy.t_fast[1] <= strategy.t_slow[1]

\* C9 as amended: t_slow is training_round_timeout; with the short timeout
\* unset, t_fast is ceil(0.5 * training_round_timeout) and is at most
\* t_slow; with it set, t_fast is the configured short timeout as given.
C9_TFastIsHalfOrConfigured ==
    BoundedStrategy =>
        /\ strategy.t_slow = setting.training_round_timeout
        /\ setting.training_round_timeout_short = None =>
              /\ 2 * strategy.t_fast[1] >= strategy.t_slow[1]
              /\ 2 * strategy.t_fast[1] <= strategy.t_slow[1] + 1
              /\ strategy.t_fast[1] <= strategy.t_slow[1]
        /\ setting.training_round_timeout_short # None =>
              strategy.t_fast = setting.training_round_timeout_short

C9_Witness ==
    /\ strategy.kind = "FastAndSlow"
    /\ setting.training_round_timeout_short = None
    /\ setting.training_round_timeout = Some(3)
    /\ strategy.t_fast = Some(2)

====
